---------------------------- MODULE Spec2Model ----------------------------
(***************************************************************************)
(* A model of app.py, the Streamlit front end of the YouTube transcript    *)
(* summarizer: the session_state flow of the entry point (login, sign-up,  *)
(* admin login, main_app, admin_panel), the users collection the sessions  *)
(* share, and generate_content's post-processing of the backend's text.    *)
(*                                                                         *)
(* One action is one run of the script for one session: Streamlit reruns   *)
(* app.py from the top on every widget interaction, and a button returns   *)
(* True only in the run its press triggered, and only if that run reaches  *)
(* the st.button call.  A text is a sequence of characters; a word         *)
(* character may stand for a chunk of non-blank characters.                *)
(***************************************************************************)
EXTENDS Integers, Sequences, FiniteSets, TLC

VARIABLES
    users,                  \* db.users: the documents, in insertion order
    sessions,               \* the browser sessions connected to the server
    ss,                     \* st.session_state of each session
    pc,                     \* where each session's running script stands
    pending,                \* the Sign Up form a running signup_page holds
    rendered,               \* the buttons each session's last run rendered
    run,                    \* what each session's last run did (observed):
                            \* the button that returned True, the form it
                            \* read, the messages it wrote, the external
                            \* calls it made, what fetch_transcript returned,
                            \* whether it began with a translation held
    translated_since_gen,   \* history: a translation set translated_content
                            \* after the last generation assigned it
    gen                     \* one call of generate_content (SpecGen)

vars == <<users, sessions, ss, pc, pending, rendered, run,
          translated_since_gen, gen>>

-----------------------------------------------------------------------------
(* Bounds of the model *)

\* the users collection holds at most MaxUsers documents
MaxUsers == 2
\* backend outputs of N - MaxDelta .. N + MaxDelta words are tried (SpecGen)
MaxDelta == 2

(* Program constants *)

\* st.slider(min_value=50, max_value=500, value=250, step=50)
SliderMin == 50
SliderMax == 500
SliderStep == 50

SliderValues ==
    {n \in SliderMin..SliderMax : (n - SliderMin) % SliderStep = 0}

ContentTypes == {"Summary", "Notes", "Flashcards"}

-----------------------------------------------------------------------------
(* Texts *)

\* Python's None, for a text and for a string field
None == <<"<None>">>
NoEmail == "<None>"

\* the characters str.split() splits on
Whitespace == {" ", "\n"}

\* Python's truth value of an optional text
Truthy(t) == t # None /\ t # <<>>

\* str.split(): the maximal runs of non-whitespace characters, in order
Split(t) ==
    LET IsStart(i) == /\ t[i] \notin Whitespace
                      /\ (i = 1 \/ t[i - 1] \in Whitespace)
        IsEnd(i) == /\ t[i] \notin Whitespace
                    /\ (i = Len(t) \/ t[i + 1] \in Whitespace)
        idx == [i \in 1..Len(t) |-> i]
        starts == SelectSeq(idx, IsStart)
        ends == SelectSeq(idx, IsEnd)
    IN  [k \in 1..Len(starts) |-> SubSeq(t, starts[k], ends[k])]

\* sep.join(ws)
RECURSIVE Join(_, _)
Join(ws, sep) ==
    IF Len(ws) = 0 THEN <<>>
    ELSE IF Len(ws) = 1 THEN ws[1]
    ELSE LET h == Len(ws) \div 2
         IN  Join(SubSeq(ws, 1, h), sep) \o sep
                 \o Join(SubSeq(ws, h + 1, Len(ws)), sep)

\* words[:n]
Take(ws, n) == SubSeq(ws, 1, IF n < Len(ws) THEN n ELSE Len(ws))

Ellipsis == <<"...">>

InvalidType ==
    <<"Invalid", " ", "content", " ", "type", " ", "selected.">>

\* the backend raised instead of returning a text
BackendError == <<"<raise>">>

\* generate_content without the truncation at line 83 (len(words) >= n)
generate_content_ge(content_type, backend, desired_word_count) ==
    IF content_type \notin ContentTypes THEN InvalidType
    ELSE IF backend = BackendError THEN None
    ELSE IF content_type = "Summary" /\ desired_word_count # 0
         THEN LET words == Split(backend)
              IN  IF Len(words) >= desired_word_count
                  THEN Join(Take(words, desired_word_count), <<" ">>)
                           \o Ellipsis
                  ELSE backend
         ELSE backend

\* generate_content(content_type, transcript_text, desired_word_count), given
\* what model.generate_content(...).text returned or that it raised;
\* desired_word_count = 0 stands for None (both are false)
generate_content(content_type, backend, desired_word_count) ==
    IF content_type \notin ContentTypes THEN InvalidType
    ELSE IF backend = BackendError THEN None
    ELSE IF content_type = "Summary" /\ desired_word_count # 0
         THEN LET words == Split(backend)
              IN  IF Len(words) > desired_word_count
                  THEN Join(Take(words, desired_word_count), <<" ">>)
                           \o Ellipsis
                  ELSE backend
         ELSE backend

-----------------------------------------------------------------------------
(* The backend outputs the model tries *)

\* k one-character words (a, b, c, a, ...), sep between two of them
Body(k, sep) ==
    IF k = 0 THEN <<>>
    ELSE [i \in 1..(k + (k - 1) * Len(sep)) |->
            IF (i - 1) % (1 + Len(sep)) = 0
            THEN <<"a", "b", "c">>[1 + (((i - 1) \div (1 + Len(sep))) % 3)]
            ELSE sep[(i - 1) % (1 + Len(sep))]]

Seps == {<<" ">>, <<" ", "\n">>}
Pads == {<<>>, <<" ">>}

WordCounts(n) ==
    {0} \cup {k \in (n - MaxDelta)..(n + MaxDelta) : k >= 0}

BackendOutputs(n) ==
    {lead \o Body(k, sep) \o trail :
        k \in WordCounts(n), sep \in Seps, lead \in Pads, trail \in Pads}

-----------------------------------------------------------------------------
(* generate_content called on its own: SpecGen *)

GenIdle ==
    [called |-> FALSE, content_type |-> "Summary", desired_word_count |-> 0,
     backend |-> <<>>, result |-> None]

\* one call generate_content(content_type, transcript_text, n) as main_app
\* makes it: n is the slider's value for a Summary and None otherwise
GenerateCall ==
    /\ ~gen.called
    /\ \E content_type \in ContentTypes \cup {"Quiz"} :
       \E n \in (IF content_type = "Summary" THEN SliderValues ELSE {0}) :
       \E backend \in BackendOutputs(IF n = 0 THEN SliderMin ELSE n)
                          \cup {BackendError} :
         gen' = [called |-> TRUE, content_type |-> content_type,
                 desired_word_count |-> n, backend |-> backend,
                 result |-> generate_content(content_type, backend, n)]
    /\ UNCHANGED <<users, sessions, ss, pc, pending, rendered, run,
                   translated_since_gen>>

-----------------------------------------------------------------------------
(* The sessions and the users collection *)

Sessions == {"s1", "s2"}
Emails == {"a@x", "b@x"}
Passwords == {"p1", "p2"}
Salts == {"$2b$x", "$2b$y"}

\* ADMIN_EMAIL, ADMIN_PASSWORD: os.getenv(...)
ADMIN_EMAIL == "admin@x"
ADMIN_PASSWORD == "secret"

\* st.session_state before any handler assigned a field (lines 223-228 and
\* 268-272 set the defaults; user_email is absent until it is first assigned)
DefaultSession ==
    [logged_in |-> FALSE, is_admin_logged_in |-> FALSE, user_email |-> NoEmail,
     generated_content |-> None, translated_content |-> None,
     pdf_generated |-> FALSE]

NoForm == [email |-> NoEmail, password |-> NoEmail]
NotFetched == <<"<not fetched>">>

\* a run that pressed nothing and called nothing
QuietRun ==
    [pressed |-> "none", form |-> NoForm, msgs |-> {}, calls |-> <<>>,
     transcript |-> NotFetched, held_translation |-> FALSE]

\* the entry point without its test of logged_in
Screen_no_user_check(st) ==
    IF st.is_admin_logged_in THEN "admin" ELSE "unauth"

\* the branch of the entry point a run takes (lines 274-279)
Screen(st) ==
    IF st.logged_in THEN "main"
    ELSE IF st.is_admin_logged_in THEN "admin"
    ELSE "unauth"

\* st.sidebar.radio("Choose an option:", ...) and the button its page renders
Options == {"Login", "Sign Up", "Admin Login"}
ButtonOf(option) ==
    IF option = "Login" THEN "Login"
    ELSE IF option = "Sign Up" THEN "Sign Up"
    ELSE "Login as Admin"

\* bcrypt.hashpw(password, salt): the salt is kept in the hash
hashpw(password, salt) == [salt |-> salt, digest |-> <<salt, password>>]

\* a check that accepts every password
checkpw_any(password, hashed) == TRUE

\* bcrypt.checkpw(password, hashed)
checkpw(password, hashed) == hashpw(password, hashed.salt) = hashed

\* users_collection.find_one({"email": email}): the first match, <<>> for None
find_one(coll, email) ==
    LET Match(doc) == doc.email = email
        found == SelectSeq(coll, Match)
    IN  IF found = <<>> THEN <<>> ELSE <<found[1]>>

\* the session's run changed something this step
Ran(s) == run'[s] # run[s] \/ ss'[s] # ss[s] \/ pc'[s] # pc[s]

Others == <<sessions, gen>>

-----------------------------------------------------------------------------
(* The unauthenticated pages *)

\* a run of the entry point's else branch with no button pressed: the
\* sidebar option picks the page
unauthenticated_page(s) ==
    /\ s \in sessions /\ pc[s] = "idle"
    /\ Screen(ss[s]) = "unauth"
    /\ \E option \in Options :
         rendered' = [rendered EXCEPT ![s] = {ButtonOf(option)}]
    /\ run' = [run EXCEPT ![s] = QuietRun]
    /\ UNCHANGED <<users, ss, pc, pending, translated_since_gen, Others>>

\* login_page with the Login button pressed
login_page(s) ==
    /\ s \in sessions /\ pc[s] = "idle"
    /\ Screen(ss[s]) = "unauth"
    /\ "Login" \in rendered[s]
    /\ \E email \in Emails, password \in Passwords, store_ok \in BOOLEAN :
         LET user == find_one(users, email)
             ok == /\ store_ok
                   /\ user # <<>>
                   /\ checkpw(password, user[1].password)
         IN  /\ ss' = [ss EXCEPT ![s] =
                         IF ok THEN [@ EXCEPT !.logged_in = TRUE,
                                              !.user_email = email]
                         ELSE @]
             /\ run' = [run EXCEPT ![s] =
                         [QuietRun EXCEPT
                            !.pressed = "Login",
                            !.form = [email |-> email, password |-> password],
                            !.calls = <<"users.find_one">>,
                            !.msgs = IF ~store_ok THEN {"Traceback"}
                                     ELSE IF ok THEN {"Login successful!"}
                                     ELSE {"Invalid email or password."}]]
    /\ rendered' = [rendered EXCEPT ![s] = {"Login"}]
    /\ UNCHANGED <<users, pc, pending, translated_since_gen, Others>>

\* lines 144-145 only: the session is left logged in
SignupSession_stay_in(st, email) ==
    [st EXCEPT !.logged_in = TRUE, !.user_email = email]

\* lines 144-148: what a successful signup assigns to the session state
SignupSession(st, email) ==
    LET st1 == [st EXCEPT !.logged_in = TRUE, !.user_email = email]
    IN  [st1 EXCEPT !.logged_in = FALSE, !.user_email = NoEmail]

\* signup_page with the Sign Up button pressed, up to the lookup at line 139
signup_page_find(s) ==
    /\ s \in sessions /\ pc[s] = "idle"
    /\ Screen(ss[s]) = "unauth"
    /\ "Sign Up" \in rendered[s]
    /\ \E email \in Emails, password \in Passwords, store_ok \in BOOLEAN :
         LET form == [email |-> email, password |-> password]
             free == store_ok /\ find_one(users, email) = <<>>
         IN  /\ pc' = [pc EXCEPT ![s] =
                         IF free THEN "signup_insert" ELSE "idle"]
             /\ pending' = [pending EXCEPT ![s] =
                              IF free THEN form ELSE NoForm]
             /\ run' = [run EXCEPT ![s] =
                         [QuietRun EXCEPT
                            !.pressed = "Sign Up",
                            !.form = form,
                            !.calls = <<"users.find_one">>,
                            !.msgs = IF ~store_ok THEN {"Traceback"}
                                     ELSE IF free THEN {}
                                     ELSE {"User already exists."}]]
    /\ rendered' = [rendered EXCEPT ![s] = {"Sign Up"}]
    /\ UNCHANGED <<users, ss, translated_since_gen, Others>>

\* signup_page from line 142 on: the insert, the session state, st.rerun()
\* (the rerun takes the else branch again and renders the Sign Up page);
\* insert_one raises when the store fails, and always once the collection
\* holds MaxUsers documents
signup_page_insert(s) ==
    /\ s \in sessions /\ pc[s] = "signup_insert"
    /\ \E salt \in Salts,
          store_ok \in (IF Len(users) < MaxUsers THEN BOOLEAN ELSE {FALSE}) :
         LET doc == [email |-> pending[s].email,
                     password |-> hashpw(pending[s].password, salt)]
         IN  /\ users' = IF store_ok THEN Append(users, doc) ELSE users
             /\ ss' = [ss EXCEPT ![s] =
                         IF store_ok THEN SignupSession(@, pending[s].email)
                         ELSE @]
             /\ run' = [run EXCEPT ![s] =
                         [@ EXCEPT
                            !.calls = Append(@, "users.insert_one"),
                            !.msgs = IF store_ok
                                     THEN {"Registration successful! You can now log in."}
                                     ELSE {"Traceback"}]]
    /\ pc' = [pc EXCEPT ![s] = "idle"]
    /\ pending' = [pending EXCEPT ![s] = NoForm]
    /\ rendered' = [rendered EXCEPT ![s] = {"Sign Up"}]
    /\ UNCHANGED <<translated_since_gen, Others>>

\* the Admin Login page with the Login as Admin button pressed
admin_login(s) ==
    /\ s \in sessions /\ pc[s] = "idle"
    /\ Screen(ss[s]) = "unauth"
    /\ "Login as Admin" \in rendered[s]
    /\ \E admin_email \in {ADMIN_EMAIL, "a@x"},
          admin_password \in {ADMIN_PASSWORD, "p1"} :
         LET ok == admin_email = ADMIN_EMAIL /\ admin_password = ADMIN_PASSWORD
         IN  /\ ss' = [ss EXCEPT ![s] =
                         IF ok THEN [@ EXCEPT !.is_admin_logged_in = TRUE]
                         ELSE @]
             /\ run' = [run EXCEPT ![s] =
                         [QuietRun EXCEPT
                            !.pressed = "Login as Admin",
                            !.form = [email |-> admin_email,
                                      password |-> admin_password],
                            !.msgs = IF ok THEN {"Admin login successful!"}
                                     ELSE {"Invalid admin credentials."}]]
    /\ rendered' = [rendered EXCEPT ![s] = {"Login as Admin"}]
    /\ UNCHANGED <<users, pc, pending, translated_since_gen, Others>>

-----------------------------------------------------------------------------
(* admin_panel *)

\* a run of admin_panel: the Logout Admin button, then the two listings
\* (failed = 0: both finds return, 1 or 2: that find raises)
AdminRun(s, pressed) ==
    /\ s \in sessions /\ pc[s] = "idle"
    /\ Screen(ss[s]) = "admin"
    /\ ss' = [ss EXCEPT ![s] =
                IF pressed = "Logout Admin"
                THEN [@ EXCEPT !.is_admin_logged_in = FALSE]
                ELSE @]
    /\ \E failed \in 0..2 :
         run' = [run EXCEPT ![s] =
                   [QuietRun EXCEPT
                      !.pressed = pressed,
                      !.calls = IF failed = 1 THEN <<"users.find">>
                                ELSE <<"users.find", "generated_content.find">>,
                      !.msgs = (IF pressed = "Logout Admin"
                                THEN {"Admin has been logged out."} ELSE {})
                               \cup (IF failed = 0 THEN {} ELSE {"Traceback"})]]
    /\ rendered' = [rendered EXCEPT ![s] = {"Logout Admin"}]
    /\ UNCHANGED <<users, pc, pending, translated_since_gen, Others>>

admin_panel(s) == AdminRun(s, "none")

admin_panel_logout(s) ==
    /\ "Logout Admin" \in rendered[s]
    /\ AdminRun(s, "Logout Admin")

-----------------------------------------------------------------------------
(* main_app *)

\* a link is a sequence of pieces; "v=", "youtu.be/" and "&" are pieces
Links ==
    { <<>>,
      <<"https://example.com/watch">>,
      <<"https://", "youtu.be/", "abc123">>,
      <<"https://", "youtu.be/">>,
      <<"https://www.youtube.com/watch?", "v=", "abc123", "&", "t=10">> }

Has(link, piece) == \E i \in 1..Len(link) : link[i] = piece

\* link.split(piece)[k] for k = 0, 1 (k = 1 only when the piece occurs)
SplitAt(link, piece, k) ==
    LET IsPiece(i) == link[i] = piece
        at == SelectSeq([i \in 1..Len(link) |-> i], IsPiece)
    IN  IF k = 0
        THEN SubSeq(link, 1, IF at = <<>> THEN Len(link) ELSE at[1] - 1)
        ELSE SubSeq(link, at[1] + 1,
                    IF Len(at) >= 2 THEN at[2] - 1 ELSE Len(link))

\* lines 210-216: video_id, <<>> for None and for the empty string
VideoId(link) ==
    IF link = <<>> THEN <<>>
    ELSE IF Has(link, "v=") THEN SplitAt(SplitAt(link, "v=", 1), "&", 0)
    ELSE IF Has(link, "youtu.be/") THEN SplitAt(link, "youtu.be/", 1)
    ELSE <<>>

ValidLink(link) == Has(link, "v=") \/ Has(link, "youtu.be/")

\* what the transcript service does: the segments' texts, or an exception
NoTranscriptFound == <<"<NoTranscriptFound>">>
VideoUnavailable == <<"<VideoUnavailable>">>
OtherFetchError == <<"<Exception>">>
FetchErrors == {NoTranscriptFound, VideoUnavailable, OtherFetchError}
FetchOutcomes ==
    FetchErrors \cup { <<>>, << <<"hello">>, <<"world">> >> }

FetchMessage(outcome) ==
    IF outcome = NoTranscriptFound
    THEN "Transcript not available for this video."
    ELSE IF outcome = VideoUnavailable
    THEN "The video is unavailable. Please try another link."
    ELSE "An unexpected error occurred"

\* fetch_transcript returning the message it reported instead of None
fetch_transcript_msg(outcome) ==
    IF outcome \in FetchErrors THEN <<FetchMessage(outcome)>>
    ELSE Join(outcome, <<" ">>)

\* fetch_transcript(video_id), given what the transcript service did
fetch_transcript(outcome) ==
    IF outcome \in FetchErrors THEN None
    ELSE Join(outcome, <<" ">>)

\* what the generative backend does in a session: it raises, or returns an
\* empty text or a short one (SpecGen tries the texts that are truncated)
SessionBackends ==
    {BackendError, <<>>, <<"two", " ", "words">>}

\* what the translation backend does
TranslateError == <<"<raise>">>
TranslateOutcomes == {TranslateError, <<>>, <<"hola">>}

\* translate_content(content, target_language), given what the backend did
translate_content(content, outcome) ==
    IF outcome = TranslateError THEN None ELSE outcome

NotCalled == <<"<not called>">>

\* the generation followed by save_to_mongodb(...)
GenerateCalls_save == <<"generate", "generated_content.insert_one">>

\* the external calls of lines 234-237: the generation alone
\* (save_to_mongodb is defined and never called)
GenerateCalls == <<"generate">>

\* line 239 only
Invalidate_pdf_only(st) == [st EXCEPT !.pdf_generated = FALSE]

\* the whole session state reset to its defaults
Invalidate_clear(st) == DefaultSession

\* lines 238-239
Invalidate(st) ==
    [st EXCEPT !.translated_content = None, !.pdf_generated = FALSE]

\* one run of main_app; pressed is the button the user clicked, which
\* returns True only if this run reaches its st.button call
MainRun(s, pressed) ==
    /\ s \in sessions /\ pc[s] = "idle"
    /\ Screen(ss[s]) = "main"
    /\ \E youtube_link \in Links :
       LET video_id == VideoId(youtube_link) IN
       \E fetched \in (IF video_id # <<>> THEN FetchOutcomes
                       ELSE {NotFetched}) :
       LET transcript_text ==
               IF fetched = NotFetched THEN NotFetched
               ELSE fetch_transcript(fetched)
           gen_shown == transcript_text # NotFetched /\ Truthy(transcript_text)
           gen_pressed == gen_shown /\ pressed = "Generate Content"
       IN
       \* the radio's and the slider's values are read only by the generation
       \E content_type \in (IF gen_pressed THEN ContentTypes
                            ELSE {"Summary"}) :
       \E desired_word_count \in
              (IF gen_pressed /\ content_type = "Summary"
               THEN SliderValues ELSE {0}),
          backend \in (IF gen_pressed THEN SessionBackends ELSE {NotCalled}) :
       LET st1 == IF gen_pressed
                  THEN Invalidate(
                         [ss[s] EXCEPT !.generated_content =
                            generate_content(content_type, backend,
                                             desired_word_count)])
                  ELSE ss[s]
           shown == Truthy(st1.generated_content)
       IN
       \E pdf_ok \in (IF shown THEN BOOLEAN ELSE {TRUE}) :
       LET tr_shown == shown /\ pdf_ok
           tr_pressed == tr_shown /\ pressed = "Translate Content"
       IN
       \E translated \in (IF tr_pressed THEN TranslateOutcomes
                          ELSE {NotCalled}) :
         /\ ss' = [ss EXCEPT ![s] =
                     IF tr_pressed
                     THEN [st1 EXCEPT !.translated_content =
                              translate_content(st1.generated_content,
                                                translated)]
                     ELSE st1]
         /\ rendered' = [rendered EXCEPT ![s] =
                           (IF gen_shown THEN {"Generate Content"} ELSE {})
                           \cup (IF tr_shown THEN {"Translate Content"}
                                 ELSE {})]
         /\ translated_since_gen' =
               [translated_since_gen EXCEPT ![s] =
                  IF tr_pressed THEN TRUE
                  ELSE IF gen_pressed THEN FALSE
                  ELSE @]
         /\ run' = [run EXCEPT ![s] =
              [pressed |-> IF gen_pressed \/ tr_pressed THEN pressed
                           ELSE "none",
               form |-> NoForm,
               transcript |-> transcript_text,
               held_translation |-> Truthy(ss[s].translated_content),
               calls |->
                  (IF fetched # NotFetched THEN <<"fetch">> ELSE <<>>)
                  \o (IF gen_pressed THEN GenerateCalls ELSE <<>>)
                  \o (IF tr_pressed THEN <<"translate">> ELSE <<>>),
               msgs |->
                  (IF youtube_link # <<>> /\ ~ValidLink(youtube_link)
                   THEN {"Please enter a valid YouTube link."} ELSE {})
                  \cup (IF fetched \in FetchErrors
                        THEN {FetchMessage(fetched)} ELSE {})
                  \cup (IF backend = BackendError
                        THEN {"Failed to generate content"} ELSE {})
                  \cup (IF ~pdf_ok THEN {"TypeError"} ELSE {})
                  \cup (IF translated = TranslateError
                        THEN {"Failed to translate content"} ELSE {})]]
    /\ UNCHANGED <<users, pc, pending, Others>>

\* a run of main_app that no button press triggered (a widget changed)
main_app(s) == MainRun(s, "none")

\* a run of main_app triggered by a press of Generate Content
main_app_generate(s) ==
    /\ "Generate Content" \in rendered[s]
    /\ MainRun(s, "Generate Content")

\* a run of main_app triggered by a press of Translate Content
main_app_translate(s) ==
    /\ "Translate Content" \in rendered[s]
    /\ MainRun(s, "Translate Content")

-----------------------------------------------------------------------------
(* The specifications *)

\* every session has run the script once: the Login page is on screen
InitWith(connected) ==
    /\ users = <<>>
    /\ sessions = connected
    /\ ss = [s \in Sessions |-> DefaultSession]
    /\ pc = [s \in Sessions |-> "idle"]
    /\ pending = [s \in Sessions |-> NoForm]
    /\ rendered = [s \in Sessions |-> {"Login"}]
    /\ run = [s \in Sessions |-> QuietRun]
    /\ translated_since_gen = [s \in Sessions |-> FALSE]
    /\ gen = GenIdle

Init == InitWith({"s1"})

InitRace == InitWith(Sessions)

AccountStep(s) ==
    \/ unauthenticated_page(s)
    \/ login_page(s)
    \/ signup_page_find(s)
    \/ signup_page_insert(s)
    \/ admin_login(s)
    \/ admin_panel(s)
    \/ admin_panel_logout(s)

ContentStep(s) ==
    \/ main_app(s)
    \/ main_app_generate(s)
    \/ main_app_translate(s)

Next == \E s \in Sessions : AccountStep(s) \/ ContentStep(s)

\* one session, every page
Spec == Init /\ [][Next]_vars

\* two sessions on the account pages, their store calls interleaved
NextRace == \E s \in Sessions : AccountStep(s)

SpecRace == InitRace /\ [][NextRace]_vars

\* generate_content alone
NextGen == GenerateCall

SpecGen == Init /\ [][NextGen]_vars

\* one session whose user keeps using every control that stays on screen
FairSpec ==
    /\ Init /\ [][Next]_vars
    /\ \A s \in Sessions :
         /\ WF_vars(unauthenticated_page(s))
         /\ WF_vars(login_page(s))
         /\ WF_vars(signup_page_find(s))
         /\ WF_vars(signup_page_insert(s))
         /\ WF_vars(admin_login(s))
         /\ WF_vars(admin_panel(s))
         /\ WF_vars(admin_panel_logout(s))
         /\ WF_vars(main_app(s))
         /\ WF_vars(main_app_generate(s))
         /\ WF_vars(main_app_translate(s))

-----------------------------------------------------------------------------
(* The claims *)

FetchMessages ==
    {FetchMessage(outcome) : outcome \in FetchErrors}

\* C1: a run in which the Generate Content button returned True ends with
\* translated_content = None and pdf_generated = False, whatever the
\* generation returned; so a non-empty translated_content was always
\* assigned by a translation that came after the last generation.
C1_GenerateInvalidates ==
    \A s \in Sessions :
      /\ run[s].pressed = "Generate Content" =>
            /\ ss[s].translated_content = None
            /\ ss[s].pdf_generated = FALSE
      /\ Truthy(ss[s].translated_content) => translated_since_gen[s]

C1_Witness ==
    \E s \in Sessions :
      /\ run[s].pressed = "Generate Content"
      /\ run[s].held_translation
      /\ Truthy(ss[s].generated_content)
      /\ ss[s].translated_content = None

\* C2: for a Summary of N words, whatever text the backend returned: the
\* result has at most N words; if the backend's text had more than N words
\* the result is its first N words, one space between two of them, and "..."
\* right after the last; otherwise the result is the backend's text.
C2_SummaryClamp ==
    (gen.called /\ gen.content_type = "Summary" /\ gen.backend # BackendError)
    =>
    LET n == gen.desired_word_count
        given == Split(gen.backend)
        got == Split(gen.result)
        r == gen.result
    IN  /\ n \in SliderValues
        /\ Len(got) <= n
        /\ Len(given) <= n => r = gen.backend
        /\ Len(given) > n =>
              /\ Len(got) = n
              /\ \A k \in 1..(n - 1) : got[k] = given[k]
              /\ got[n] = given[n] \o Ellipsis
              /\ r[1] \notin Whitespace /\ r[Len(r)] \notin Whitespace
              /\ \A i \in 1..Len(r) :
                    r[i] \in Whitespace =>
                       r[i] = " " /\ r[i + 1] \notin Whitespace

C2_Witness ==
    /\ gen.called /\ gen.content_type = "Summary"
    /\ gen.backend # BackendError
    /\ Len(Split(gen.backend)) > gen.desired_word_count
    /\ gen.result # gen.backend

\* C3: the users collection holds at most one document per email, also when
\* the find_one and insert_one calls of different sessions interleave.
C3_OneUserPerEmail ==
    \A i, j \in 1..Len(users) :
      users[i].email = users[j].email => i = j

\* C4: a Login press whose lookup returned ends in one of two ways.  If no
\* stored document has the email, or none with the email has the password,
\* the session state is unchanged and the one message is "Invalid email or
\* password."; logged_in is True afterwards only if a stored document has
\* the email and the password, and then user_email is that email.
C4_LoginFailuresAlike ==
    [][\A s \in Sessions :
         (Ran(s) /\ run'[s].pressed = "Login"
                 /\ "Traceback" \notin run'[s].msgs) =>
         LET form == run'[s].form
             matches ==
               \E i \in 1..Len(users) :
                 /\ users[i].email = form.email
                 /\ users[i].password =
                       hashpw(form.password, users[i].password.salt)
         IN  /\ ~matches =>
                  /\ ss'[s] = ss[s]
                  /\ run'[s].msgs = {"Invalid email or password."}
             /\ ss'[s].logged_in =>
                  /\ matches
                  /\ ss'[s].user_email = form.email]_vars

C4_Witness ==
    \E s \in Sessions :
      /\ run[s].pressed = "Login"
      /\ run[s].msgs = {"Invalid email or password."}
      /\ \E i \in 1..Len(users) : users[i].email = run[s].form.email
      /\ ~ss[s].logged_in

\* C5: when a signup has inserted its document and rerun the script, the
\* session is not logged in, user_email is None and the page on screen is an
\* unauthenticated one; logged_in turns True only in a run whose Login press
\* succeeded.
C5_SignupDoesNotLogIn ==
    [][\A s \in Sessions :
         /\ (pc[s] = "signup_insert" /\ pc'[s] = "idle"
                /\ "Traceback" \notin run'[s].msgs) =>
               /\ ~ss'[s].logged_in
               /\ ~ss'[s].is_admin_logged_in
               /\ ss'[s].user_email = NoEmail
               /\ rendered'[s] \subseteq {ButtonOf(o) : o \in Options}
         /\ (ss'[s].logged_in /\ ~ss[s].logged_in) =>
               /\ run'[s].pressed = "Login"
               /\ run'[s].msgs = {"Login successful!"}]_vars

C5_Witness ==
    \E s \in Sessions :
      /\ run[s].pressed = "Sign Up"
      /\ run[s].calls = <<"users.find_one", "users.insert_one">>
      /\ "Traceback" \notin run[s].msgs
      /\ \E i \in 1..Len(users) : users[i].email = run[s].form.email
      /\ ~ss[s].logged_in /\ ss[s].user_email = NoEmail

\* C6 as stated: a session that is logged in gets back to Unauthenticated
\* when its user keeps using the controls on screen.
C6_LogoutReturns ==
    \A s \in Sessions : ss[s].logged_in ~> ~ss[s].logged_in

\* C6 as amended: main_app has no logout; once logged_in is True no run of
\* the script sets it to False again, and user_email stays the email that
\* logged in.
C6_NoUserLogout ==
    [][\A s \in Sessions :
         ss[s].logged_in =>
            /\ ss'[s].logged_in
            /\ ss'[s].user_email = ss[s].user_email]_vars

C6_Witness ==
    \E s \in Sessions :
      /\ ss[s].logged_in
      /\ Truthy(ss[s].generated_content)
      /\ Truthy(ss[s].translated_content)

\* C7: a run whose fetch_transcript reported a failure got None from it,
\* did not call the generation, left generated_content as it was and
\* rendered no Generate Content button; the generation is called only in a
\* run whose fetch returned a non-empty transcript.
C7_NoGenerationAfterFailedFetch ==
    [][\A s \in Sessions :
         /\ (run'[s].msgs \cap FetchMessages # {}) =>
               /\ run'[s].transcript = None
               /\ \A k \in 1..Len(run'[s].calls) :
                     run'[s].calls[k] # "generate"
               /\ ss'[s].generated_content = ss[s].generated_content
               /\ "Generate Content" \notin rendered'[s]
         /\ (\E k \in 1..Len(run'[s].calls) : run'[s].calls[k] = "generate")
               => (run'[s].transcript # NotFetched
                   /\ Truthy(run'[s].transcript))
         /\ "Generate Content" \in rendered'[s] =>
               (run'[s].transcript # NotFetched
                /\ Truthy(run'[s].transcript))]_vars

C7_Witness ==
    \E s \in Sessions :
      /\ run[s].msgs \cap FetchMessages # {}
      /\ run[s].transcript = None
      /\ Truthy(ss[s].generated_content)

\* C8: a run in which an external call failed changed no session-state
\* field outside the failed step: a failed generation left the translated
\* content the session held and pdf_generated as they were, a failed
\* translation left generated_content, a failed fetch or export in a run
\* without a press left every field.
C8_FailureKeepsOtherFields ==
    [][\A s \in Sessions :
         Ran(s) =>
           /\ ("Failed to generate content" \in run'[s].msgs
                 /\ Truthy(ss[s].translated_content)) =>
                 /\ ss'[s].translated_content = ss[s].translated_content
                 /\ ss'[s].pdf_generated = ss[s].pdf_generated
           /\ "Failed to translate content" \in run'[s].msgs =>
                 ss'[s].generated_content = ss[s].generated_content
           /\ (run'[s].pressed = "none"
                 /\ run'[s].msgs \cap (FetchMessages \cup {"TypeError"}) # {})
                 => ss'[s] = ss[s]]_vars

C10_UserXorAdmin ==
    /\ \A s \in Sessions : ~(ss[s].logged_in /\ ss[s].is_admin_logged_in)
    /\ [][\A s \in Sessions :
            /\ ~(ss'[s].logged_in /\ ss'[s].is_admin_logged_in)
            /\ (ss'[s].logged_in /\ ~ss[s].logged_in) =>
                  /\ ~ss[s].is_admin_logged_in
                  /\ run'[s].pressed = "Login"
            /\ (ss'[s].is_admin_logged_in /\ ~ss[s].is_admin_logged_in) =>
                  /\ ~ss[s].logged_in
                  /\ run'[s].pressed = "Login as Admin"]_vars

C10_Witness ==
    \E s \in Sessions :
      /\ ss[s].is_admin_logged_in
      /\ run[s].pressed = "Login as Admin"
      /\ "Login as Admin" \in rendered[s]

=============================================================================
